---- MODULE Spec2Model ----
(***************************************************************************)
(* Model of parquet4seastar's bit stream codec                             *)
(* (include/parquet4seastar/bit_stream_utils.hh): BitWriter and BitReader. *)
(*                                                                         *)
(* Machine words (uint64_t, uint32_t, int32_t, uint8_t) are modelled as    *)
(* the set of positions of their 1 bits, bit 0 being the least             *)
(* significant: TLC's integers are too narrow for a 64-bit accumulator.    *)
(* Memory (the caller's buffer) is a function from byte offsets 0..L-1 to  *)
(* bytes 0..255, so every memcpy between an accumulator and the buffer is  *)
(* a little-endian conversion between the two representations.             *)
(*                                                                         *)
(* The schema trees of include/parquet4seastar/writer_schema.hh and their  *)
(* flattening by write_schema are modelled in a section of their own.      *)
(***************************************************************************)
EXTENDS Integers, Sequences, FiniteSets, TLC

VARIABLES
    writer,   \* the BitWriter: buffer_, max_bytes_, buffered_values_, byte_offset_, bit_offset_
    wlog,     \* history: the successful write calls, in order
    wlast,    \* history: the last write call, its result and the position before it
    wclean,   \* history: no write call has returned false
    wcalls,   \* history: number of write calls made
    reader,   \* the BitReader: buffer_, max_bytes_, buffered_values_, byte_offset_, bit_offset_
    rlast,    \* history: the last read call, its result and the reader before it
    ridx,     \* history: number of read calls made (each reads back one logged write in Spec)
    phase,    \* "write" while the writer is used, "read" once a reader is constructed
    schema,   \* the writer_schema::schema handed to write_schema: its top-level nodes
    written   \* the result of write_schema, NotWritten before the call

vars == <<writer, wlog, wlast, wclean, wcalls, reader, rlast, ridx, phase,
          schema, written>>

\* the variables of the bit stream codec
codec == <<writer, wlog, wlast, wclean, wcalls, reader, rlast, ridx, phase>>

---------------------------------------------------------------------------
(* Bounds of the model *)

\* number of BitWriter calls in one run of Spec
MaxOps == 3
\* number of BitWriter calls in one run of SpecBits
MaxBitOps == 4
\* number of BitWriter calls in one run of SpecMixed
MaxMixedOps == 4
\* length of the larger of the writer's buffers
MaxLen == 9
\* number of BitReader calls in one run of SpecRead
MaxReads == 2
\* length of the longest buffer a reader is constructed over in SpecRead
MaxRead == 13

\* groups nested above a leaf of the schemas flattened
MaxDepth == 2

\* writer calls in a row in the specification of long call sequences
MaxSeqWrites == 5

\* reader calls in a row in the specification of long call sequences
MaxSeqReads == 5

---------------------------------------------------------------------------
(* Words as sets of bit positions *)

Pow2(n) == 2 ^ n

\* the word whose value is the natural number x (x < 2^31)
FromNat(x) == {i \in 0..30 : (x \div Pow2(i)) % 2 = 1}

\* the value of a byte-sized word
ToByte(s) ==
    (IF 0 \in s THEN 1 ELSE 0) + (IF 1 \in s THEN 2 ELSE 0) +
    (IF 2 \in s THEN 4 ELSE 0) + (IF 3 \in s THEN 8 ELSE 0) +
    (IF 4 \in s THEN 16 ELSE 0) + (IF 5 \in s THEN 32 ELSE 0) +
    (IF 6 \in s THEN 64 ELSE 0) + (IF 7 \in s THEN 128 ELSE 0)

\* the bits of the byte b
ByteBits(b) == {i \in 0..7 : (b \div Pow2(i)) % 2 = 1}

\* x << s and x >> s on a word of `width` bits
Shl(x, s, width) == {i + s : i \in {j \in x : j + s < width}}
Shr(x, s) == {i - s : i \in {j \in x : j >= s}}
Xor(x, y) == (x \ y) \cup (y \ x)

\* static_cast to an unsigned type of `width` bits
Cast(x, width) == x \cap (0..(width - 1))

\* byte j of the word x in memory (little-endian)
WordByte(x, j) == ToByte(Shr(x \cap ((8 * j)..(8 * j + 7)), 8 * j))

Min(a, b) == IF a < b THEN a ELSE b

\* BitUtil::BytesForBits
BytesForBits(bits) == (bits \div 8) + (IF bits % 8 # 0 THEN 1 ELSE 0)

\* BitUtil::TrailingBits
TrailingBits(v, num_bits) ==
    IF num_bits = 0 THEN {}
    ELSE IF num_bits >= 64 THEN v
    ELSE LET n == 64 - num_bits IN Shr(Shl(v, n, 64), n)

\* memcpy(buffer + off, &word, k): the writes that fall inside the buffer
MemcpyToBuf(buf, off, word, k) ==
    [i \in DOMAIN buf |->
        IF off <= i /\ i < off + k THEN WordByte(word, i - off) ELSE buf[i]]

\* whether a copy of k bytes at buffer + off stays inside a buffer of max bytes
InBuf(off, k, max) == k = 0 \/ (off >= 0 /\ off + k <= max)

\* memcpy(&word, buffer + off, k) for k <= 8: the bytes of the word above
\* the k copied ones keep what they held
MemcpyFromBuf(word, buf, off, k) ==
    {b \in word : b >= 8 * k} \cup
    UNION {{8 * j + i : i \in ByteBits(IF (off + j) \in DOMAIN buf THEN buf[off + j] ELSE 0)} :
              j \in 0..(k - 1)}

---------------------------------------------------------------------------
(* BitWriter *)

\* BitWriter::BitWriter over `buf`, followed by Clear()
NewWriter(buf, len) ==
    [buf |-> buf, max |-> len, bv |-> {}, byte |-> 0, bit |-> 0,
     oob |-> FALSE, afail |-> FALSE]

\* BitWriter::bytes_written
bytes_written(w) == w.byte + BytesForBits(w.bit)

\* PutValue with the bits of v that did not fit the accumulator dropped
PutValue_NoCarry(w, v, num_bits) ==
    IF w.byte * 8 + w.bit + num_bits > w.max * 8
    THEN [w |-> w, ok |-> FALSE]
    ELSE LET bv1 == w.bv \cup Shl(v, w.bit, 64)
             bit1 == w.bit + num_bits
         IN  IF bit1 >= 64
             THEN [w |-> [w EXCEPT
                            !.buf = MemcpyToBuf(w.buf, w.byte, bv1, 8),
                            !.byte = w.byte + 8,
                            !.bit = bit1 - 64,
                            !.bv = {}],
                   ok |-> TRUE]
             ELSE [w |-> [w EXCEPT !.bv = bv1, !.bit = bit1], ok |-> TRUE]

\* PutValue with the capacity test off by one: a value that would fill the
\* buffer to its last bit is refused
PutValue_OffByOne(w, v, num_bits) ==
    IF w.byte * 8 + w.bit + num_bits >= w.max * 8
    THEN [w |-> w, ok |-> FALSE]
    ELSE LET bv1 == w.bv \cup Shl(v, w.bit, 64)
             bit1 == w.bit + num_bits
         IN  IF bit1 >= 64
             THEN [w |-> [w EXCEPT
                            !.buf = MemcpyToBuf(w.buf, w.byte, bv1, 8),
                            !.byte = w.byte + 8,
                            !.bit = bit1 - 64,
                            !.bv = Shr(v, num_bits - (bit1 - 64))],
                   ok |-> TRUE]
             ELSE [w |-> [w EXCEPT !.bv = bv1, !.bit = bit1], ok |-> TRUE]

\* PutValue with a capacity test that leaves out the bits already held in
\* the accumulator
PutValue_NoBitOffset(w, v, num_bits) ==
    IF w.byte * 8 + num_bits > w.max * 8
    THEN [w |-> w, ok |-> FALSE]
    ELSE LET bv1 == w.bv \cup Shl(v, w.bit, 64)
             bit1 == w.bit + num_bits
         IN  IF bit1 >= 64
             THEN [w |-> [w EXCEPT
                            !.buf = MemcpyToBuf(w.buf, w.byte, bv1, 8),
                            !.oob = w.oob \/ ~InBuf(w.byte, 8, w.max),
                            !.byte = w.byte + 8,
                            !.bit = bit1 - 64,
                            !.bv = Shr(v, num_bits - (bit1 - 64)),
                            !.afail = w.afail \/ (bit1 - 64 > 64)],
                   ok |-> TRUE]
             ELSE [w |-> [w EXCEPT !.bv = bv1, !.bit = bit1], ok |-> TRUE]

\* BitWriter::PutValue; v is a uint64_t with v >> num_bits == 0
PutValue(w, v, num_bits) ==
    IF w.byte * 8 + w.bit + num_bits > w.max * 8
    THEN [w |-> w, ok |-> FALSE]
    ELSE LET bv1 == w.bv \cup Shl(v, w.bit, 64)
             bit1 == w.bit + num_bits
         IN  IF bit1 >= 64
             THEN [w |-> [w EXCEPT
                            !.buf = MemcpyToBuf(w.buf, w.byte, bv1, 8),
                            !.oob = w.oob \/ ~InBuf(w.byte, 8, w.max),
                            !.byte = w.byte + 8,
                            !.bit = bit1 - 64,
                            !.bv = Shr(v, num_bits - (bit1 - 64)),
                            !.afail = w.afail \/ (bit1 - 64 > 64)],
                   ok |-> TRUE]
             ELSE [w |-> [w EXCEPT !.bv = bv1, !.bit = bit1], ok |-> TRUE]

\* Flush that copies only the full bytes of the accumulator
Flush_FullBytes(w, align) ==
    LET num_bytes == w.bit \div 8
        w1 == [w EXCEPT !.buf = MemcpyToBuf(w.buf, w.byte, w.bv, num_bytes)]
    IN  IF align
        THEN [w1 EXCEPT !.bv = {}, !.byte = w.byte + BytesForBits(w.bit), !.bit = 0]
        ELSE w1

\* BitWriter::Flush
Flush(w, align) ==
    LET num_bytes == BytesForBits(w.bit)
        w1 == [w EXCEPT
                 !.afail = w.afail \/ (w.byte + num_bytes > w.max),
                 !.oob = w.oob \/ ~InBuf(w.byte, num_bytes, w.max),
                 !.buf = MemcpyToBuf(w.buf, w.byte, w.bv, num_bytes)]
    IN  IF align
        THEN [w1 EXCEPT !.bv = {}, !.byte = w.byte + num_bytes, !.bit = 0]
        ELSE w1

\* BitWriter::GetNextBytePtr; ptr is the offset of the returned pointer in
\* the buffer, -1 for NULL
GetNextBytePtr(w, num_bytes) ==
    LET w1 == Flush(w, TRUE)
        w2 == [w1 EXCEPT !.afail = w1.afail \/ (w1.byte > w1.max)]
    IN  IF w2.byte + num_bytes > w2.max
        THEN [w |-> w2, ptr |-> -1]
        ELSE [w |-> [w2 EXCEPT !.byte = w2.byte + num_bytes], ptr |-> w2.byte]

\* BitWriter::PutAligned<T>; val is a T of at least num_bytes bytes
PutAligned(w, val, num_bytes) ==
    LET g == GetNextBytePtr(w, num_bytes)
    IN  IF g.ptr = -1
        THEN [w |-> g.w, ok |-> FALSE]
        ELSE [w |-> [g.w EXCEPT !.buf = MemcpyToBuf(g.w.buf, g.ptr, val, num_bytes)],
              ok |-> TRUE]

\* PutVlqLoop that shifts v by a whole byte after each group of 7 bits
RECURSIVE PutVlqLoop_Shift8(_, _, _)
PutVlqLoop_Shift8(w, v, result) ==
    IF v \cap (7..31) # {}
    THEN LET p == PutAligned(w, Cast(Cast(v, 7) \cup {7}, 8), 1)
         IN  IF p.ok
             THEN PutVlqLoop_Shift8(p.w, Shr(v, 8), result)
             ELSE PutVlqLoop_Shift8(p.w, Shr(v, 8), FALSE)
    ELSE LET p == PutAligned(w, Cast(Cast(v, 7), 8), 1)
         IN  [w |-> p.w, ok |-> result /\ p.ok]

\* the loop of BitWriter::PutVlqInt and the statement after it
RECURSIVE PutVlqLoop(_, _, _)
PutVlqLoop(w, v, result) ==
    IF v \cap (7..31) # {}
    THEN LET p == PutAligned(w, Cast(Cast(v, 7) \cup {7}, 8), 1)
         IN  IF p.ok
             THEN PutVlqLoop(p.w, Shr(v, 7), result)
             ELSE PutVlqLoop(p.w, Shr(v, 7), FALSE)
    ELSE LET p == PutAligned(w, Cast(Cast(v, 7), 8), 1)
         IN  [w |-> p.w, ok |-> result /\ p.ok]

\* BitWriter::PutVlqInt; v is a uint32_t
PutVlqInt(w, v) == PutVlqLoop(w, v, TRUE)

\* ZigZag with v >> 31 taken as a logical shift: 1, not -1, for negative v
ZigZag_LogicalShift(v) == Xor(Shl(v, 1, 32), IF 31 \in v THEN {0} ELSE {})

\* (u_v << 1) ^ (v >> 31): v is an int32_t in two's complement, v >> 31 an
\* arithmetic shift converted to uint32_t for the xor
ZigZag(v) == Xor(Shl(v, 1, 32), IF 31 \in v THEN 0..31 ELSE {})

\* BitWriter::PutZigZagVlqInt
PutZigZagVlqInt(w, v) == PutVlqInt(w, ZigZag(v))

---------------------------------------------------------------------------
(* BitReader *)

\* BitReader::kMaxVlqByteLength
kMaxVlqByteLength == 5

\* BitReader::BitReader(): no buffer
NoReader ==
    [buf |-> <<>>, max |-> 0, bv |-> {}, byte |-> 0, bit |-> 0, oob |-> FALSE]

\* BitReader::BitReader(buffer, buffer_len): buffered_values_ is not
\* initialised, garbage is what its bytes above the copied ones hold
NewReader(buf, len, garbage) ==
    [buf |-> buf, max |-> len,
     bv |-> MemcpyFromBuf(garbage, buf, 0, Min(8, len)),
     byte |-> 0, bit |-> 0, oob |-> FALSE]

\* BitReader::bytes_left
bytes_left(r) == r.max - (r.byte + BytesForBits(r.bit))

\* a refill that always copies 8 bytes, whatever is left of the buffer
Refill_Always8(r) ==
    [r EXCEPT !.bv = MemcpyFromBuf(r.bv, r.buf, r.byte, 8),
              !.oob = r.oob \/ ~InBuf(r.byte, 8, r.max)]

\* the refill of the accumulator shared by GetValue_, GetBatch and GetAligned:
\* memcpy of 8 bytes, or of bytes_remaining when fewer are left
Refill(r) ==
    LET bytes_remaining == r.max - r.byte
        k == IF bytes_remaining >= 8 THEN 8 ELSE bytes_remaining
    IN  [r EXCEPT !.bv = MemcpyFromBuf(r.bv, r.buf, r.byte, k),
                  !.oob = r.oob \/ k < 0 \/ ~InBuf(r.byte, k, r.max)]

\* detail::GetValue_<T>, T an unsigned type of tw bits; r carries the local
\* bit_offset, byte_offset and buffered_values of the caller
GetValue_(num_bits, tw, r) ==
    LET v0 == Cast(Shr(TrailingBits(r.bv, r.bit + num_bits), r.bit), tw)
        bit1 == r.bit + num_bits
    IN  IF bit1 >= 64
        THEN LET r1 == Refill([r EXCEPT !.byte = r.byte + 8, !.bit = bit1 - 64])
             IN  [r |-> r1,
                  v |-> v0 \cup Cast(Shl(TrailingBits(r1.bv, r1.bit),
                                         num_bits - r1.bit, 64), tw)]
        ELSE [r |-> [r EXCEPT !.bit = bit1], v |-> v0]

\* bit k of the byte stream that starts at buffer + off
StreamBit(buf, off, k) ==
    LET i == off + (k \div 8)
    IN  i \in DOMAIN buf /\ (k % 8) \in ByteBits(buf[i])

\* internal::unpack32 (bpacking.hh): unpacks the full groups of 32 values of
\* num_bits bits among batch_size and returns them; their number is the
\* function's result
unpack32(buf, off, batch_size, num_bits) ==
    [j \in 1..((batch_size \div 32) * 32) |->
        {b \in 0..(num_bits - 1) : StreamBit(buf, off, (j - 1) * num_bits + b)}]

\* the loops of GetBatch that read one value at a time: the head loop stops
\* at bit_offset = 0, the tail loop only at batch_size. s carries the reader
\* and the values stored so far; at most k iterations run, the first half of
\* them before the second
RECURSIVE GetBatchLoop(_, _, _, _, _, _)
GetBatchLoop(num_bits, tw, batch_size, head, s, k) ==
    IF k <= 0 \/ ~(Len(s.out) < batch_size /\ (s.r.bit # 0 \/ ~head))
    THEN s
    ELSE IF k = 1
    THEN LET g == GetValue_(num_bits, tw, s.r)
         IN  [r |-> g.r, out |-> Append(s.out, g.v)]
    ELSE LET a == GetBatchLoop(num_bits, tw, batch_size, head, s, k \div 2)
         IN  IF Len(a.out) >= batch_size
             THEN a
             ELSE GetBatchLoop(num_bits, tw, batch_size, head, a, k - k \div 2)

\* the bulk loop of GetBatch for sizeof(T) # 4: unpack32 into a buffer of
\* 1024 values, each then cast to T
RECURSIVE GetBatchUnpackLoop(_, _, _, _, _)
GetBatchUnpackLoop(num_bits, tw, batch_size, r, out) ==
    IF Len(out) < batch_size
    THEN LET unpack_size == Min(1024, batch_size - Len(out))
             u == unpack32(r.buf, r.byte, unpack_size, num_bits)
         IN  IF Len(u) = 0
             THEN [r |-> r, out |-> out]
             ELSE GetBatchUnpackLoop(num_bits, tw, batch_size,
                      [r EXCEPT !.byte = r.byte + (Len(u) * num_bits) \div 8],
                      out \o [k \in 1..Len(u) |-> Cast(u[k], tw)])
    ELSE [r |-> r, out |-> out]

\* the bulk step without the advance of byte_offset past the unpacked values
GetBatchUnpack_NoAdvance(num_bits, tw, batch_size, r, out) ==
    LET u == unpack32(r.buf, r.byte, batch_size - Len(out), num_bits)
    IN  [r |-> r, out |-> out \o [k \in 1..Len(u) |-> Cast(u[k], tw)]]

\* the bulk step of GetBatch
GetBatchUnpack(num_bits, tw, batch_size, r, out) ==
    IF tw = 32
    THEN LET u == unpack32(r.buf, r.byte, batch_size - Len(out), num_bits)
         IN  [r |-> [r EXCEPT !.byte = r.byte + (Len(u) * num_bits) \div 8],
              out |-> out \o u]
    ELSE GetBatchUnpackLoop(num_bits, tw, batch_size, r, out)

\* BitReader::GetBatch<T>; n is the returned count, out the values stored
GetBatch(r, num_bits, tw, batch_size) ==
    LET needed_bits == num_bits * batch_size
        remaining_bits == (r.max - r.byte) * 8 - r.bit
        \* remaining_bits is a uint64_t: a negative difference is a huge one
        bs == IF remaining_bits >= 0 /\ remaining_bits < needed_bits
              THEN remaining_bits \div num_bits
              ELSE batch_size
        h == IF r.bit # 0
             THEN GetBatchLoop(num_bits, tw, bs, TRUE,
                               [r |-> r, out |-> <<>>], bs)
             ELSE [r |-> r, out |-> <<>>]
        u == GetBatchUnpack(num_bits, tw, bs, h.r, h.out)
        t == GetBatchLoop(num_bits, tw, bs, FALSE,
                          [r |-> Refill(u.r), out |-> u.out], bs)
    IN  [r |-> t.r, out |-> t.out, n |-> bs]

\* BitReader::GetValue<T>
GetValue(r, num_bits, tw) ==
    LET g == GetBatch(r, num_bits, tw, 1)
    IN  [r |-> g.r, ok |-> g.n = 1, v |-> IF g.n = 1 THEN g.out[1] ELSE {},
         wrote |-> g.n = 1]

\* GetAligned that skips only the full bytes consumed, not the partial one
GetAligned_FullBytes(r, num_bytes, tbytes) ==
    LET bytes_read == r.bit \div 8
    IN  IF num_bytes > tbytes \/ r.byte + bytes_read + num_bytes > r.max
        THEN [r |-> r, ok |-> FALSE, v |-> {}, wrote |-> FALSE]
        ELSE LET off == r.byte + bytes_read
             IN  [r |-> Refill([r EXCEPT !.byte = off + num_bytes, !.bit = 0]),
                  ok |-> TRUE,
                  v |-> MemcpyFromBuf({}, r.buf, off, num_bytes),
                  wrote |-> num_bytes > 0]

\* BitReader::GetAligned<T>, T of tbytes bytes; v holds the num_bytes bytes
\* copied into *v
GetAligned(r, num_bytes, tbytes) ==
    LET bytes_read == BytesForBits(r.bit)
    IN  IF num_bytes > tbytes
        THEN [r |-> r, ok |-> FALSE, v |-> {}, wrote |-> FALSE]
        ELSE IF r.byte + bytes_read + num_bytes > r.max
        THEN [r |-> r, ok |-> FALSE, v |-> {}, wrote |-> FALSE]
        ELSE LET off == r.byte + bytes_read
                 r1 == [r EXCEPT !.byte = off + num_bytes, !.bit = 0,
                                 !.oob = r.oob \/ ~InBuf(off, num_bytes, r.max)]
             IN  [r |-> Refill(r1), ok |-> TRUE,
                  v |-> MemcpyFromBuf({}, r.buf, off, num_bytes),
                  wrote |-> num_bytes > 0]

\* GetVlqLoop that accepts what it has decoded once 5 bytes are read
RECURSIVE GetVlqLoop_NoLimit(_, _, _)
GetVlqLoop_NoLimit(r, tmp, i) ==
    IF i < kMaxVlqByteLength
    THEN LET g == GetAligned(r, 1, 1)
             tmp1 == tmp \cup Shl(Cast(g.v, 7), 7 * i, 32)
         IN  IF ~g.ok
             THEN [r |-> g.r, ok |-> FALSE, v |-> {}, wrote |-> FALSE]
             ELSE IF 7 \notin g.v
             THEN [r |-> g.r, ok |-> TRUE, v |-> tmp1, wrote |-> TRUE]
             ELSE GetVlqLoop_NoLimit(g.r, tmp1, i + 1)
    ELSE [r |-> r, ok |-> TRUE, v |-> tmp, wrote |-> TRUE]

\* the loop of BitReader::GetVlqInt
RECURSIVE GetVlqLoop(_, _, _)
GetVlqLoop(r, tmp, i) ==
    IF i < kMaxVlqByteLength
    THEN LET g == GetAligned(r, 1, 1)
             tmp1 == tmp \cup Shl(Cast(g.v, 7), 7 * i, 32)
         IN  IF ~g.ok
             THEN [r |-> g.r, ok |-> FALSE, v |-> {}, wrote |-> FALSE]
             ELSE IF 7 \notin g.v
             THEN [r |-> g.r, ok |-> TRUE, v |-> tmp1, wrote |-> TRUE]
             ELSE GetVlqLoop(g.r, tmp1, i + 1)
    ELSE [r |-> r, ok |-> FALSE, v |-> {}, wrote |-> FALSE]

\* BitReader::GetVlqInt
GetVlqInt(r) == GetVlqLoop(r, {}, 0)

\* (u >> 1) ^ -(static_cast<int32_t>(u & 1)), stored in an int32_t
UnZigZag(u) == Xor(Shr(u, 1), IF 0 \in u THEN 0..31 ELSE {})

\* BitReader::GetZigZagVlqInt
GetZigZagVlqInt(r) ==
    LET g == GetVlqInt(r)
    IN  IF ~g.ok THEN g ELSE [g EXCEPT !.v = UnZigZag(g.v)]

---------------------------------------------------------------------------
(* writer_schema: the schema tree and its flattening by write_schema *)

\* writer_schema::primitive_node; a node is a record of its kind, its name,
\* its optional flag and the sequence of the nodes it owns
primitive_node(name, optional) ==
    [kind |-> "primitive", name |-> name, optional |-> optional, nodes |-> <<>>]

\* writer_schema::list_node, owner of its element
list_node(name, optional, element) ==
    [kind |-> "list", name |-> name, optional |-> optional, nodes |-> <<element>>]

\* writer_schema::map_node, owner of its key and its value
map_node(name, optional, key, value) ==
    [kind |-> "map", name |-> name, optional |-> optional, nodes |-> <<key, value>>]

\* writer_schema::struct_node, owner of its fields
struct_node(name, optional, fields) ==
    [kind |-> "struct", name |-> name, optional |-> optional, nodes |-> fields]

\* the schema is rejected
Rejected == [ok |-> FALSE, elements |-> <<>>, leaves |-> <<>>]

\* write_schema has not been called
NotWritten == [called |-> FALSE, result |-> Rejected]

\* a format::SchemaElement: its name, its repetition and its num_children,
\* 0 for a leaf
SchemaElement(name, repetition, num_children) ==
    [name |-> name, repetition |-> repetition, num_children |-> num_children]

\* the repetition of the element of a node
Repetition(optional) == IF optional THEN "OPTIONAL" ELSE "REQUIRED"

\* the levels of the children of a list or a map that ignore its optional flag
ChildLevels_NoOptional(node, rep_level, def_level) ==
    IF node.kind = "struct"
    THEN [rep |-> rep_level, def |-> def_level + IF node.optional THEN 1 ELSE 0]
    ELSE [rep |-> rep_level + 1, def |-> def_level + 1]

\* the levels handed to the children of a group: a struct adds 1 to def_level
\* if optional; a list or a map adds 1 to rep_level, and 1, plus 1 if
\* optional, to def_level
ChildLevels(node, rep_level, def_level) ==
    IF node.kind = "struct"
    THEN [rep |-> rep_level, def |-> def_level + IF node.optional THEN 1 ELSE 0]
    ELSE [rep |-> rep_level + 1,
          def |-> def_level + 1 + IF node.optional THEN 1 ELSE 0]

\* whether two fields of a struct have the same name
DuplicateNames(fields) ==
    \E i, j \in 1..Len(fields) : i < j /\ fields[i].name = fields[j].name

\* two flattenings, one after the other
Concat(a, b) ==
    IF a.ok /\ b.ok
    THEN [ok |-> TRUE, elements |-> a.elements \o b.elements,
          leaves |-> a.leaves \o b.leaves]
    ELSE Rejected

\* the flattening of `node` under the name `name`, below the groups of `path`,
\* depth first; FlattenAll flattens fields from the left to the right
RECURSIVE Flatten(_, _, _, _, _)
RECURSIVE FlattenAll(_, _, _, _, _)
Flatten(node, name, path, rep_level, def_level) ==
    LET group == <<SchemaElement(name, Repetition(node.optional),
                                 IF node.kind = "struct" THEN Len(node.nodes) ELSE 1)>>
        l == ChildLevels(node, rep_level, def_level)
        below == [ok |-> TRUE, elements |-> group, leaves |-> <<>>]
    IN  CASE node.kind = "primitive" ->
               [ok |-> TRUE,
                elements |-> <<SchemaElement(name, Repetition(node.optional), 0)>>,
                leaves |-> <<[path |-> Append(path, name),
                              max_rep_level |-> rep_level,
                              max_def_level |-> def_level + IF node.optional THEN 1 ELSE 0]>>]
          [] node.kind = "struct" ->
               IF DuplicateNames(node.nodes)
               THEN Rejected
               ELSE Concat(below,
                           FlattenAll(node.nodes, 1, Append(path, name), l.rep, l.def))
          [] node.kind = "list" ->
               LET inner == [ok |-> TRUE,
                             elements |-> <<SchemaElement("list", "REPEATED", 1)>>,
                             leaves |-> <<>>]
               IN  Concat(Concat(below, inner),
                          Flatten(node.nodes[1], "element",
                                  path \o <<name, "list">>, l.rep, l.def))
          [] node.kind = "map" ->
               LET inner == [ok |-> TRUE,
                             elements |-> <<SchemaElement("key_value", "REPEATED", 2)>>,
                             leaves |-> <<>>]
                   p == path \o <<name, "key_value">>
               IN  IF node.nodes[1].optional
                   THEN Rejected
                   ELSE Concat(Concat(Concat(below, inner),
                                      Flatten(node.nodes[1], "key", p, l.rep, l.def)),
                               Flatten(node.nodes[2], "value", p, l.rep, l.def))
FlattenAll(fields, i, path, rep_level, def_level) ==
    IF i > Len(fields)
    THEN [ok |-> TRUE, elements |-> <<>>, leaves |-> <<>>]
    ELSE Concat(Flatten(fields[i], fields[i].name, path, rep_level, def_level),
                FlattenAll(fields, i + 1, path, rep_level, def_level))

\* writer_schema::write_schema: the top-level nodes, from the left to the right
write_schema(root) == FlattenAll(root, 1, <<>>, 0, 0)

---------------------------------------------------------------------------
(* Inputs *)

\* values of num_bits bits: all ones, and every other bit from bit 0 up
\* (7 and 5 for 3 bits)
Ones(num_bits) == 0..(num_bits - 1)
Alt(num_bits) == {i \in 0..(num_bits - 1) : i % 2 = 0}
Values(num_bits) == {Ones(num_bits), Alt(num_bits)}

\* bit widths of the bit-packed values
Widths == {1, 3, 31, 32}

\* (value, num_bytes) of the aligned writes; the values are uint32_t
AlignedInputs ==
    {<<FromNat(128), 1>>, <<FromNat(4660), 2>>, <<0..31, 1>>, <<0..31, 4>>}

\* uint32_t inputs of PutVlqInt: 1 to 5 bytes long
VlqInputs == {FromNat(127), FromNat(300), FromNat(2097152), 0..31}

\* int32_t inputs of PutZigZagVlqInt, in two's complement: -1, 1, the
\* smallest and the largest int32_t
ZigZagInputs == {0..31, {0}, {31}, 0..30}

\* lengths of the writer's buffer
BufLens == {1, MaxLen}

\* the bytes a caller's buffer holds before the writer is used
Fills == {0, 255}

---------------------------------------------------------------------------
(* The writer's calls *)

NoCall == [op |-> "none", ok |-> TRUE, n |-> 0, v |-> {}, byte |-> 0, bit |-> 0]

\* one call of the writer: res is its outcome [w, ok]; a successful call is
\* logged with its arguments and the bytes_written() it leaves
WriteCall(op, n, v, res) ==
    /\ phase = "write"
    /\ writer' = res.w
    /\ wlast' = [op |-> op, ok |-> res.ok, n |-> n, v |-> v,
                 byte |-> writer.byte, bit |-> writer.bit]
    /\ wlog' = IF res.ok
               THEN Append(wlog, [op |-> op, n |-> n, v |-> v,
                                  end |-> bytes_written(res.w)])
               ELSE wlog
    /\ wclean' = (wclean /\ res.ok)
    /\ wcalls' = wcalls + 1
    /\ UNCHANGED <<reader, rlast, ridx, phase, schema, written>>

DoPutValue(v, num_bits) ==
    WriteCall("PutValue", num_bits, v, PutValue(writer, v, num_bits))

DoPutAligned(val, num_bytes) ==
    WriteCall("PutAligned", num_bytes, Cast(val, 8 * num_bytes),
              PutAligned(writer, val, num_bytes))

DoPutVlqInt(v) == WriteCall("PutVlqInt", 0, v, PutVlqInt(writer, v))

DoPutZigZagVlqInt(v) ==
    WriteCall("PutZigZagVlqInt", 0, v, PutZigZagVlqInt(writer, v))

\* Flush returns nothing; Flush(true) is logged as an aligned write of no
\* bytes, Flush(false), which leaves the position alone, is not logged
DoFlush(align) ==
    /\ phase = "write"
    /\ writer' = Flush(writer, align)
    /\ wlast' = [op |-> "Flush", ok |-> TRUE, n |-> IF align THEN 1 ELSE 0,
                 v |-> {}, byte |-> writer.byte, bit |-> writer.bit]
    /\ wlog' = IF align
               THEN Append(wlog, [op |-> "PutAligned", n |-> 0, v |-> {},
                                  end |-> bytes_written(writer)])
               ELSE wlog
    /\ wcalls' = wcalls + 1
    /\ UNCHANGED <<wclean, reader, rlast, ridx, phase, schema, written>>

---------------------------------------------------------------------------
(* The reader's calls *)

NoRead ==
    [op |-> "none", ok |-> TRUE, n |-> 0, tw |-> 0, m |-> 0, v |-> {},
     wrote |-> FALSE, out |-> <<>>, cnt |-> 0, pre |-> NoReader]

\* a reader is constructed over the bytes written, once they are flushed
DoNewReader(garbage) ==
    /\ phase = "write"
    /\ wlast.op = "Flush"
    /\ LET len == bytes_written(writer)
       IN  reader' = NewReader([i \in 0..(len - 1) |-> writer.buf[i]], len, garbage)
    /\ phase' = "read"
    /\ UNCHANGED <<writer, wlog, wlast, wclean, wcalls, rlast, ridx, schema, written>>

\* one call of the reader with outcome g = [r, ok, v, wrote]
ReadCall(op, n, tw, g) ==
    /\ phase = "read"
    /\ reader' = g.r
    /\ rlast' = [op |-> op, ok |-> g.ok, n |-> n, tw |-> tw, m |-> 0, v |-> g.v,
                 wrote |-> g.wrote, out |-> <<>>, cnt |-> 0, pre |-> reader]
    /\ UNCHANGED <<writer, wlog, wlast, wclean, wcalls, phase, schema, written>>

DoGetValue(num_bits, tw) ==
    ReadCall("GetValue", num_bits, tw, GetValue(reader, num_bits, tw))

DoGetAligned(num_bytes, tbytes) ==
    ReadCall("GetAligned", num_bytes, 8 * tbytes, GetAligned(reader, num_bytes, tbytes))

DoGetVlqInt == ReadCall("GetVlqInt", 0, 32, GetVlqInt(reader))

DoGetZigZagVlqInt == ReadCall("GetZigZagVlqInt", 0, 32, GetZigZagVlqInt(reader))

DoGetBatch(num_bits, tw, batch_size) ==
    /\ phase = "read"
    /\ LET g == GetBatch(reader, num_bits, tw, batch_size)
       IN  /\ reader' = g.r
           /\ rlast' = [op |-> "GetBatch", ok |-> TRUE, n |-> num_bits, tw |-> tw,
                        m |-> batch_size, v |-> {}, wrote |-> g.n > 0,
                        out |-> g.out, cnt |-> g.n, pre |-> reader]
    /\ UNCHANGED <<writer, wlog, wlast, wclean, wcalls, phase, schema, written>>

---------------------------------------------------------------------------
(* Specification: a writer fills a buffer, a reader reads the calls back *)

Init ==
    /\ \E len \in BufLens, fill \in Fills :
          writer = NewWriter([i \in 0..(len - 1) |-> fill], len)
    /\ wlog = <<>>
    /\ wlast = NoCall
    /\ wclean = TRUE
    /\ wcalls = 0
    /\ reader = NoReader
    /\ rlast = NoRead
    /\ ridx = 0
    /\ phase = "write"
    /\ schema = <<>>
    /\ written = NotWritten

\* the reader issues the call that reads back the next logged write
ReadBackValue ==
    /\ ridx < Len(wlog) /\ wlog[ridx + 1].op = "PutValue"
    /\ ridx' = ridx + 1
    /\ DoGetValue(wlog[ridx + 1].n, 32)

ReadBackAligned ==
    /\ ridx < Len(wlog) /\ wlog[ridx + 1].op = "PutAligned"
    /\ ridx' = ridx + 1
    /\ DoGetAligned(wlog[ridx + 1].n, 4)

ReadBackVlqInt ==
    /\ ridx < Len(wlog) /\ wlog[ridx + 1].op = "PutVlqInt"
    /\ ridx' = ridx + 1
    /\ DoGetVlqInt

ReadBackZigZagVlqInt ==
    /\ ridx < Len(wlog) /\ wlog[ridx + 1].op = "PutZigZagVlqInt"
    /\ ridx' = ridx + 1
    /\ DoGetZigZagVlqInt

\* the uninitialised bytes of a new reader's accumulator
Garbage == {{}, 0..63}

Next ==
    \/ \E n \in {3, 32} : \E v \in Values(n) :
          wcalls < MaxOps /\ DoPutValue(v, n)
    \/ \E a \in AlignedInputs : wcalls < MaxOps /\ DoPutAligned(a[1], a[2])
    \/ \E v \in VlqInputs : wcalls < MaxOps /\ DoPutVlqInt(v)
    \/ \E v \in ZigZagInputs : wcalls < MaxOps /\ DoPutZigZagVlqInt(v)
    \/ \E align \in BOOLEAN : wcalls < MaxOps /\ DoFlush(align)
    \/ \E g \in Garbage : DoNewReader(g)
    \/ ReadBackValue
    \/ ReadBackAligned
    \/ ReadBackVlqInt
    \/ ReadBackZigZagVlqInt

Spec == Init /\ [][Next]_vars

---------------------------------------------------------------------------
(* Specification: bit-packed values only, of every width *)

NextBits ==
    \/ \E n \in Widths : \E v \in Values(n) :
          wcalls < MaxBitOps /\ DoPutValue(v, n)
    \/ \E align \in BOOLEAN : wcalls < MaxBitOps /\ DoFlush(align)
    \/ \E g \in Garbage : DoNewReader(g)
    \/ ReadBackValue
    \/ ReadBackAligned

SpecBits == Init /\ [][NextBits]_vars

---------------------------------------------------------------------------
(* Specification: bit-packed values and aligned bytes in one stream *)

NextMixed ==
    \/ \E n \in {3, 32} : \E v \in Values(n) :
          wcalls < MaxMixedOps /\ DoPutValue(v, n)
    \/ \E a \in AlignedInputs : wcalls < MaxMixedOps /\ DoPutAligned(a[1], a[2])
    \/ \E align \in BOOLEAN : wcalls < MaxMixedOps /\ DoFlush(align)
    \/ \E g \in Garbage : DoNewReader(g)
    \/ ReadBackValue
    \/ ReadBackAligned

SpecMixed == Init /\ [][NextMixed]_vars

---------------------------------------------------------------------------
(* Specification: a reader over any bytes, truncated input included *)

\* the bytes of the buffers read: all continuation bytes, and a mix
ReadPatterns ==
    {[i \in 0..(MaxRead - 1) |-> 255],
     [i \in 0..(MaxRead - 1) |-> (73 * i + 172) % 256]}

\* lengths of the buffers read
ReadLens == {0, 1, 5, MaxRead}

\* (num_bits, bits of T) of the bit-packed reads
ReadWidths == {<<1, 8>>, <<3, 32>>, <<31, 32>>, <<32, 32>>}

\* (num_bits, bits of T, batch_size) of the batch reads
ReadBatches ==
    {<<1, 32, 70>>, <<1, 8, 70>>, <<1, 32, 33>>, <<3, 32, 33>>, <<32, 32, 2>>}

\* (num_bytes, sizeof(T)) of the aligned reads
AlignedReads == {<<1, 1>>, <<2, 1>>, <<2, 4>>, <<4, 4>>}

InitRead ==
    /\ writer = NewWriter(<<>>, 0)
    /\ wlog = <<>>
    /\ wlast = NoCall
    /\ wclean = TRUE
    /\ wcalls = 0
    /\ \E pat \in ReadPatterns, len \in ReadLens, g \in Garbage :
          reader = NewReader([i \in 0..(len - 1) |-> pat[i]], len, g)
    /\ rlast = NoRead
    /\ ridx = 0
    /\ phase = "read"
    /\ schema = <<>>
    /\ written = NotWritten

NextRead ==
    \/ \E a \in ReadWidths :
          ridx < MaxReads /\ ridx' = ridx + 1 /\ DoGetValue(a[1], a[2])
    \/ \E a \in ReadBatches :
          ridx < MaxReads /\ ridx' = ridx + 1 /\ DoGetBatch(a[1], a[2], a[3])
    \/ \E a \in AlignedReads :
          ridx < MaxReads /\ ridx' = ridx + 1 /\ DoGetAligned(a[1], a[2])
    \/ ridx < MaxReads /\ ridx' = ridx + 1 /\ DoGetVlqInt
    \/ ridx < MaxReads /\ ridx' = ridx + 1 /\ DoGetZigZagVlqInt

SpecRead == InitRead /\ [][NextRead]_vars

---------------------------------------------------------------------------
(* Specification: longer sequences of writer calls, Flush at any point *)

NextWriteSeq ==
    \/ \E n \in {3, 31} : wcalls < MaxSeqWrites /\ DoPutValue(Ones(n), n)
    \/ wcalls < MaxSeqWrites /\ DoPutAligned(FromNat(4660), 2)
    \/ wcalls < MaxSeqWrites /\ DoPutVlqInt(FromNat(300))
    \/ wcalls < MaxSeqWrites /\ DoPutZigZagVlqInt(0..31)
    \/ \E align \in BOOLEAN : wcalls < MaxSeqWrites /\ DoFlush(align)

SpecWriteSeq == Init /\ [][NextWriteSeq]_vars

---------------------------------------------------------------------------
(* Specification: longer sequences of reader calls over a short buffer *)

\* lengths of the buffers read by the long sequences
SeqLens == {0, 1, 5, MaxRead}

InitSeq ==
    /\ writer = NewWriter(<<>>, 0)
    /\ wlog = <<>>
    /\ wlast = NoCall
    /\ wclean = TRUE
    /\ wcalls = 0
    /\ \E len \in SeqLens :
          reader = NewReader([i \in 0..(len - 1) |-> (73 * i + 172) % 256], len, {})
    /\ rlast = NoRead
    /\ ridx = 0
    /\ phase = "read"
    /\ schema = <<>>
    /\ written = NotWritten

NextSeq ==
    \/ \E a \in {<<3, 32>>, <<31, 32>>} :
          ridx < MaxSeqReads /\ ridx' = ridx + 1 /\ DoGetValue(a[1], a[2])
    \/ \E a \in {<<3, 32, 33>>, <<1, 8, 70>>} :
          ridx < MaxSeqReads /\ ridx' = ridx + 1 /\ DoGetBatch(a[1], a[2], a[3])
    \/ ridx < MaxSeqReads /\ ridx' = ridx + 1 /\ DoGetAligned(2, 4)
    \/ ridx < MaxSeqReads /\ ridx' = ridx + 1 /\ DoGetVlqInt
    \/ ridx < MaxSeqReads /\ ridx' = ridx + 1 /\ DoGetZigZagVlqInt

SpecReadSeq == InitSeq /\ [][NextSeq]_vars

---------------------------------------------------------------------------
(* Specification: write_schema on schema trees of bounded depth *)

\* the primitive nodes at the bottom of the trees
Leaves == {primitive_node(n, o) : n \in {"x", "y"}, o \in BOOLEAN}

\* the trees of at most d groups above a leaf: a list, a map with the tree as
\* its value or as its key, a struct with the tree as a field of one or two
RECURSIVE Nodes(_)
Nodes(d) ==
    IF d = 0
    THEN Leaves
    ELSE LET sub == Nodes(d - 1)
         IN  sub
             \cup {list_node("xs", o, c) : o \in BOOLEAN, c \in sub}
             \cup {map_node("m", o, primitive_node("k", FALSE), c) :
                       o \in BOOLEAN, c \in sub}
             \cup {map_node("m", o, c, primitive_node("v", TRUE)) :
                       o \in BOOLEAN, c \in sub}
             \cup {struct_node("rec", o, <<c>>) : o \in BOOLEAN, c \in sub}
             \cup {struct_node("rec", o, <<c, primitive_node("y", TRUE)>>) :
                       o \in BOOLEAN, c \in sub}
             \cup {struct_node("rec", o, <<primitive_node("x", FALSE), c>>) :
                       o \in BOOLEAN, c \in sub}

\* the schemas: one tree, or a tree followed by a primitive
Schemas ==
    {<<n>> : n \in Nodes(MaxDepth)}
    \cup {<<n, primitive_node("z", TRUE)>> : n \in Nodes(MaxDepth)}

InitSchema ==
    /\ writer = NewWriter(<<>>, 0)
    /\ wlog = <<>>
    /\ wlast = NoCall
    /\ wclean = TRUE
    /\ wcalls = 0
    /\ reader = NoReader
    /\ rlast = NoRead
    /\ ridx = 0
    /\ phase = "schema"
    /\ schema \in Schemas
    /\ written = NotWritten

DoWriteSchema ==
    /\ phase = "schema"
    /\ ~written.called
    /\ written' = [called |-> TRUE, result |-> write_schema(schema)]
    /\ UNCHANGED <<codec, schema>>

NextSchema == DoWriteSchema

SpecSchema == InitSchema /\ [][NextSchema]_vars

---------------------------------------------------------------------------
(* Properties *)

\* the first k logged writes are all PutValue calls
BitsOnly(k) == \A i \in 1..k : wlog[i].op = "PutValue"

\* the first k logged writes are all PutValue or PutAligned calls
MixedOnly(k) == \A i \in 1..k : wlog[i].op \in {"PutValue", "PutAligned"}

\* the number of bits of the first k logged PutValue calls
RECURSIVE LogBits(_)
LogBits(k) == IF k = 0 THEN 0 ELSE LogBits(k - 1) + wlog[k].n

\* bit k of the writer's output: bit k mod 8 of byte k div 8
BufBit(k) == (writer.buf[k \div 8] \div Pow2(k % 8)) % 2 = 1

\* the logical bit position of a writer or reader
BitPos(x) == 8 * x.byte + x.bit

\* C1: values written with PutValue into a buffer large enough for all of
\* them, then flushed, are read back by GetValue calls of the same widths in
\* the same order: each call returns true and yields the value written.
C1_BitPackedRoundTrip ==
    (phase = "read" /\ wclean /\ ridx > 0 /\ BitsOnly(ridx)) =>
        /\ rlast.op = "GetValue"
        /\ rlast.ok
        /\ rlast.v = wlog[ridx].v

\* a value that straddles the 64-bit accumulator was read back
C1_Witness ==
    /\ phase = "read" /\ wclean /\ ridx >= 3 /\ BitsOnly(ridx)
    /\ rlast.ok
    /\ rlast.pre.bit < 64 /\ rlast.pre.bit + rlast.n > 64
    /\ rlast.v = wlog[ridx].v
    /\ rlast.v # {}

\* C7: PutValue(v, n) at bit position p of a buffer of L bytes returns false
\* exactly when p + n > 8 * L, and otherwise advances the position to p + n;
\* after successful PutValue calls alone, bytes_written() is the sum of the
\* widths in bytes, rounded up.
C7_PutValueAccounting ==
    /\ wlast.op = "PutValue" =>
          LET p == 8 * wlast.byte + wlast.bit
          IN  /\ wlast.ok <=> ~(p + wlast.n > 8 * writer.max)
              /\ wlast.ok => BitPos(writer) = p + wlast.n
    /\ BitsOnly(Len(wlog)) =>
          bytes_written(writer) = BytesForBits(LogBits(Len(wlog)))

\* a PutValue was refused after the accumulator had been spilled once
C7_Witness ==
    /\ wlast.op = "PutValue" /\ ~wlast.ok
    /\ wlast.byte = 8 /\ wlast.bit > 0
    /\ BitsOnly(Len(wlog)) /\ Len(wlog) >= 2

\* C8: after successful PutValue calls and Flush(false), bit k of the output
\* is the bit of the value whose range holds k, the padding bits of the last
\* partial byte are 0, and PutValue(5,3); PutValue(7,3) gives the byte 0x3D.
C8_BitLayout ==
    (wlast.op = "Flush" /\ wlast.n = 0 /\ BitsOnly(Len(wlog))) =>
        LET total == LogBits(Len(wlog))
        IN  /\ \A i \in 1..Len(wlog) : \A b \in 0..(wlog[i].n - 1) :
                  BufBit(LogBits(i - 1) + b) <=> b \in wlog[i].v
            /\ \A k \in total..(8 * BytesForBits(total) - 1) : ~BufBit(k)
            /\ (/\ Len(wlog) = 2
                /\ wlog[1].n = 3 /\ wlog[1].v = FromNat(5)
                /\ wlog[2].n = 3 /\ wlog[2].v = FromNat(7))
                  => (writer.buf[0] = 61 /\ bytes_written(writer) = 1)

\* PutValue(5,3); PutValue(7,3); Flush(false) was run on a buffer of 0xFF bytes
C8_Witness ==
    /\ wlast.op = "Flush" /\ wlast.n = 0
    /\ Len(wlog) = 2 /\ BitsOnly(2)
    /\ wlog[1].n = 3 /\ wlog[1].v = FromNat(5)
    /\ wlog[2].n = 3 /\ wlog[2].v = FromNat(7)
    /\ writer.max > 1 /\ writer.buf[1] = 255
    /\ writer.buf[0] = 61

\* C2: a write call that returns false leaves the writer where it was: the
\* byte offset, the bit offset and bytes_written() are those before the call.
C2_FailedWriteTransactional ==
    ~wlast.ok =>
        /\ writer.byte = wlast.byte
        /\ writer.bit = wlast.bit
        /\ bytes_written(writer) = wlast.byte + BytesForBits(wlast.bit)

\* the bytes from offset `from` up to the writer's byte offset are the VLQ
\* of the uint32_t u: 7 bits a byte from the least significant group up,
\* bit 7 set on every byte but the last
IsVlqOf(u, from) ==
    LET len == writer.byte - from
    IN  /\ len \in 1..5
        /\ \A j \in 0..(len - 1) :
              /\ Cast(ByteBits(writer.buf[from + j]), 7) = Cast(Shr(u, 7 * j), 7)
              /\ (7 \in ByteBits(writer.buf[from + j])) <=> (j < len - 1)
        /\ Shr(u, 7 * len) = {}

\* C4: PutVlqInt(u) with at least 5 free bytes returns true and appends the 1
\* to 5 bytes of the VLQ of u (AC 02 for 300); GetVlqInt on these bytes
\* returns true, yields u and consumes exactly the bytes written.
C4_VlqRoundTrip ==
    /\ (/\ wlast.op = "PutVlqInt"
        /\ wlast.byte + BytesForBits(wlast.bit) + 5 <= writer.max) =>
          LET from == wlast.byte + BytesForBits(wlast.bit)
          IN  /\ wlast.ok
              /\ writer.bit = 0
              /\ IsVlqOf(wlast.v, from)
              /\ wlast.v = FromNat(300) =>
                    /\ writer.byte = from + 2
                    /\ writer.buf[from] = 172
                    /\ writer.buf[from + 1] = 2
    /\ (phase = "read" /\ wclean /\ ridx > 0 /\ wlog[ridx].op = "PutVlqInt") =>
          /\ rlast.op = "GetVlqInt"
          /\ rlast.ok
          /\ rlast.v = wlog[ridx].v
          /\ reader.bit = 0
          /\ reader.byte = wlog[ridx].end

\* the VLQ of 300, written after a value that is not byte aligned, was read
\* back
C4_Witness ==
    /\ phase = "read" /\ wclean /\ ridx > 1
    /\ wlog[ridx].op = "PutVlqInt" /\ wlog[ridx].v = FromNat(300)
    /\ wlog[ridx - 1].op = "PutValue"
    /\ rlast.op = "GetVlqInt" /\ rlast.ok /\ rlast.v = FromNat(300)
    /\ rlast.pre.bit % 8 # 0
    /\ reader.buf[reader.byte - 2] = 172 /\ reader.buf[reader.byte - 1] = 2

\* the zigzag code of the int32_t i, bit by bit: bit 0 is the sign, bit k is
\* bit k-1 of i, inverted when i is negative
ZigZagCode(i) ==
    {k \in 0..31 : IF k = 0 THEN 31 \in i ELSE ((k - 1) \in i) # (31 \in i)}

\* C5: PutZigZagVlqInt(i) writes the VLQ of the zigzag code of i modulo 2^32
\* (01 for -1, 02 for 1), and GetZigZagVlqInt on the bytes written returns i,
\* for the smallest and the largest int32_t too.
C5_ZigZagRoundTrip ==
    /\ (wlast.op = "PutZigZagVlqInt" /\ wlast.ok) =>
          LET from == wlast.byte + BytesForBits(wlast.bit)
          IN  /\ IsVlqOf(ZigZagCode(wlast.v), from)
              /\ wlast.v = 0..31 => (writer.byte = from + 1 /\ writer.buf[from] = 1)
              /\ wlast.v = {0} => (writer.byte = from + 1 /\ writer.buf[from] = 2)
    /\ (/\ phase = "read" /\ wclean /\ ridx > 0
        /\ wlog[ridx].op = "PutZigZagVlqInt") =>
          /\ rlast.op = "GetZigZagVlqInt"
          /\ rlast.ok
          /\ rlast.v = wlog[ridx].v

\* the smallest int32_t was written in 5 bytes and read back
C5_Witness ==
    /\ phase = "read" /\ wclean /\ ridx > 0
    /\ wlog[ridx].op = "PutZigZagVlqInt" /\ wlog[ridx].v = {31}
    /\ rlast.op = "GetZigZagVlqInt" /\ rlast.ok /\ rlast.v = {31}
    /\ reader.byte = rlast.pre.byte + BytesForBits(rlast.pre.bit) + 5

\* C9: successful PutValue and PutAligned calls in any order are read back by
\* GetValue and GetAligned calls in the same order: each returns true and
\* yields the value written (for PutAligned, its num_bytes low bytes).
C9_MixedRoundTrip ==
    (phase = "read" /\ wclean /\ ridx > 0 /\ MixedOnly(ridx)) =>
        /\ rlast.ok
        /\ rlast.v = wlog[ridx].v
        /\ reader.byte + BytesForBits(reader.bit) = wlog[ridx].end

\* bytes written after a bit-packed value that ends inside a byte were read
\* back, and so was a bit-packed value after them
C9_Witness ==
    /\ phase = "read" /\ wclean /\ ridx = 3 /\ MixedOnly(ridx)
    /\ wlog[1].op = "PutValue" /\ wlog[1].n = 3
    /\ wlog[2].op = "PutAligned" /\ wlog[2].n = 2
    /\ wlog[3].op = "PutValue"
    /\ rlast.op = "GetValue" /\ rlast.ok /\ rlast.v = wlog[3].v

\* C3: a read call that returns false leaves the reader where it was: its
\* logical bit position and bytes_left() are those before the call.
C3_FailedReadKeepsCursor ==
    ~rlast.ok =>
        /\ BitPos(reader) = BitPos(rlast.pre)
        /\ bytes_left(reader) = bytes_left(rlast.pre)

\* C6: GetVlqInt returns true exactly when one of the next 5 bytes from the
\* next byte boundary, inside the buffer, has bit 7 clear; when it returns
\* false it stores no value.
C6_VlqRejects ==
    rlast.op = "GetVlqInt" =>
        LET from == rlast.pre.byte + BytesForBits(rlast.pre.bit)
            terminated ==
                \E j \in 0..4 :
                    /\ from + j < rlast.pre.max
                    /\ rlast.pre.buf[from + j] < 128
        IN  /\ rlast.ok <=> terminated
            /\ ~rlast.ok => ~rlast.wrote

\* GetVlqInt refused 5 continuation bytes with more bytes behind them
C6_Witness ==
    /\ rlast.op = "GetVlqInt" /\ ~rlast.ok
    /\ rlast.pre.bit % 8 # 0
    /\ rlast.pre.byte + BytesForBits(rlast.pre.bit) + 5 < rlast.pre.max

\* c more GetValue calls after those of acc, up to the first that fails; the
\* calls are made in order, the first half of them before the second
RECURSIVE GetValues(_, _, _, _)
GetValues(acc, num_bits, tw, c) ==
    IF c <= 0 \/ ~acc.ok
    THEN acc
    ELSE IF c = 1
    THEN LET g == GetValue(acc.r, num_bits, tw)
         IN  IF ~g.ok
             THEN [r |-> g.r, out |-> acc.out, ok |-> FALSE]
             ELSE [r |-> g.r, out |-> Append(acc.out, g.v), ok |-> TRUE]
    ELSE LET a == GetValues(acc, num_bits, tw, c \div 2)
         IN  IF ~a.ok
             THEN a
             ELSE GetValues(a, num_bits, tw, c - c \div 2)

\* C10: GetBatch(n, out, m) with r bits left returns c = min(m, r div n),
\* stores the values c successive GetValue(n) calls return, and leaves the
\* reader at the bit position and bytes_left() those calls leave it at.
C10_BatchAgreesWithSingles ==
    rlast.op = "GetBatch" =>
        LET r == 8 * (rlast.pre.max - rlast.pre.byte) - rlast.pre.bit
            c == Min(rlast.m, r \div rlast.n)
            s == GetValues([r |-> rlast.pre, out |-> <<>>, ok |-> TRUE],
                           rlast.n, rlast.tw, c)
        IN  /\ rlast.cnt = c
            /\ s.ok
            /\ rlast.out = s.out
            /\ BitPos(reader) = BitPos(s.r)
            /\ bytes_left(reader) = bytes_left(s.r)

\* a batch of 70 one-bit values was read from inside the accumulator: its
\* head one at a time up to the 64-bit boundary, 32 values unpacked at once,
\* the rest one at a time
C10_Witness ==
    /\ rlast.op = "GetBatch" /\ rlast.n = 1 /\ rlast.cnt = 70
    /\ rlast.pre.bit = 31
    /\ reader.byte = 12 /\ reader.bit = 5
    /\ \E i, j \in 1..70 : rlast.out[i] # rlast.out[j]

\* C11: the reader never goes past the end of its buffer: after every call,
\* failed ones included, byte_offset + ceil(bit_offset / 8) <= max_bytes,
\* bytes_left() >= 0, 0 <= bit_offset < 64, and no refill of the accumulator
\* has copied a byte from outside the buffer.
C11_ReaderInBounds ==
    phase = "read" =>
        /\ reader.byte >= 0
        /\ reader.byte + BytesForBits(reader.bit) <= reader.max
        /\ bytes_left(reader) >= 0
        /\ 0 <= reader.bit /\ reader.bit < 64
        /\ ~reader.oob

\* after at least two other calls the reader stood at the end of its buffer,
\* at a byte offset that is not a multiple of 8; a call then failed and left
\* it there
C11_Witness ==
    /\ ridx >= 3
    /\ rlast.op \in {"GetValue", "GetAligned", "GetVlqInt"} /\ ~rlast.ok
    /\ rlast.pre.byte > 0 /\ rlast.pre.byte % 8 # 0
    /\ bytes_left(rlast.pre) = 0
    /\ reader.byte + BytesForBits(reader.bit) = reader.max

\* C13: the writer stays inside its buffer of L bytes: after every call,
\* failed ones and a Flush at any point included, 0 <= bit_offset < 64,
\* byte_offset + ceil(bit_offset / 8) <= L, bytes_written() <= L, no assertion
\* of the writer has failed, and neither the spill of the accumulator in
\* PutValue nor the copy in Flush has written outside the buffer.
C13_WriterInBounds ==
    /\ 0 <= writer.bit /\ writer.bit < 64
    /\ writer.byte >= 0
    /\ writer.byte + BytesForBits(writer.bit) <= writer.max
    /\ bytes_written(writer) <= writer.max
    /\ ~writer.afail
    /\ ~writer.oob

\* the accumulator was spilled, the buffer is full to its last byte, and a
\* call has then failed
C13_Witness ==
    /\ phase = "write"
    /\ writer.byte >= 8
    /\ bytes_written(writer) = writer.max
    /\ wlast.op # "Flush" /\ ~wlast.ok
    /\ wlast.byte + BytesForBits(wlast.bit) = writer.max

\* the index after the subtree of element i in the flat list of elements,
\* which holds each group before its num_children children
RECURSIVE SubtreeEnd(_, _)
RECURSIVE ChildrenEnd(_, _, _)
SubtreeEnd(els, i) == ChildrenEnd(els, i + 1, els[i].num_children)
ChildrenEnd(els, j, n) ==
    IF n = 0 THEN j ELSE ChildrenEnd(els, SubtreeEnd(els, j), n - 1)

\* the groups above element i, as indices
Ancestors(els, i) == {j \in 1..(i - 1) : i < SubtreeEnd(els, j)}

\* the elements of a set of indices, in increasing order
RECURSIVE InOrder(_)
InOrder(S) ==
    IF S = {}
    THEN <<>>
    ELSE LET m == CHOOSE x \in S : \A y \in S : x <= y
         IN  <<m>> \o InOrder(S \ {m})

\* the indices of the leaf elements, in order
LeafElements(els) == InOrder({i \in 1..Len(els) : els[i].num_children = 0})

\* the schema of the example: struct rec (required) of a list xs (optional)
\* of a required primitive
ExampleSchema ==
    <<struct_node("rec", FALSE,
                  <<list_node("xs", TRUE, primitive_node("x", FALSE))>>)>>

\* C12: the flattener's leaves are the leaf elements in document order; the
\* path of each is the names of the groups above it and its own, a list
\* giving name/list/element and a map name/key_value/key|value; its
\* max_rep_level is the number of REPEATED groups above it and its
\* max_def_level the number of OPTIONAL and REPEATED groups above it, plus 1
\* if the leaf is optional. The example gives [rec, xs, list, element], 1, 2.
C12_FlattenLevels ==
    (written.called /\ written.result.ok) =>
        LET els == written.result.elements
            leaves == written.result.leaves
            at == LeafElements(els)
        IN  /\ Len(leaves) = Len(at)
            /\ \A k \in 1..Len(leaves) :
                  LET anc == Ancestors(els, at[k])
                      up == InOrder(anc)
                  IN  /\ leaves[k].path =
                            [n \in 1..Len(up) |-> els[up[n]].name]
                                \o <<els[at[k]].name>>
                      /\ leaves[k].max_rep_level =
                            Cardinality({j \in anc : els[j].repetition = "REPEATED"})
                      /\ leaves[k].max_def_level =
                            Cardinality({j \in anc : els[j].repetition # "REQUIRED"})
                            + IF els[at[k]].repetition = "OPTIONAL" THEN 1 ELSE 0
            /\ \A i \in 1..Len(els) :
                  els[i].repetition = "REPEATED" =>
                      /\ els[i].name \in {"list", "key_value"}
                      /\ els[i].name = "list" =>
                            /\ els[i].num_children = 1
                            /\ els[i + 1].name = "element"
                      /\ els[i].name = "key_value" =>
                            /\ els[i].num_children = 2
                            /\ els[i + 1].name = "key"
                            /\ els[SubtreeEnd(els, i + 1)].name = "value"
            /\ schema = ExampleSchema =>
                  leaves = <<[path |-> <<"rec", "xs", "list", "element">>,
                              max_rep_level |-> 1, max_def_level |-> 2]>>

\* the example schema has been flattened
C12_Witness ==
    /\ written.called /\ written.result.ok
    /\ schema = ExampleSchema
    /\ Len(written.result.leaves) = 1

====
